---- MODULE Spec2Model ----
(***************************************************************************)
(* HILSimulator (gnc-autonomous-system/examples/hil_simulation_example.py) *)
(* as a state machine.                                                     *)
(*                                                                         *)
(* Numbers are fixed point, rounded to nearest after every product, as the *)
(* floating point code rounds after every operation:                       *)
(*   position            1 unit = 0.001 km   (1 m)                         *)
(*   velocity            1 unit = 0.0001 km/s                              *)
(*   thrust              1 unit = 0.0001 km/s^2                            *)
(*   attitude            1 unit = 1e-6 rad                                 *)
(*   angular velocity    1 unit = 1e-6 rad/s,  torque 1e-6 rad/s^2         *)
(*   time, dt, duration  1 unit = 0.01 s                                   *)
(*                                                                         *)
(* numpy arrays are objects.  The four arrays of self.state are the fields *)
(* of the variable state; a Cell is either a reference to one of them      *)
(* (an alias of that array object) or a value of its own (a fresh array    *)
(* nothing else refers to).                                                *)
(***************************************************************************)
EXTENDS Integers, Sequences, FiniteSets, TLC

VARIABLES dt, time, state, test_log,
          pc, scenario, duration, iteration,
          sensor_data, estimated_state, desired_state, commands,
          reused, evalLog

vars == <<dt, time, state, test_log, pc, scenario, duration, iteration,
          sensor_data, estimated_state, desired_state, commands,
          reused, evalLog>>

(* ------------------------------ bounds -------------------------------- *)

\* The longest run drawn performs MaxTicks loop iterations.
MaxTicks == 11

\* Calls a client makes in the attitude harness (AttSpec).
MaxAttSteps == 4

(* --------------------------- vector algebra --------------------------- *)

Zero3 == <<0, 0, 0>>

Abs(x) == IF x < 0 THEN -x ELSE x

Max2(a, b) == IF a < b THEN b ELSE a

\* x / d rounded to the nearest integer (d > 0).
RoundDiv(x, d) == (2 * x + d) \div (2 * d)

\* x * n / d rounded to nearest, without forming x * n in full.
MulDiv(x, n, d) == (x \div d) * n + RoundDiv((x % d) * n, d)

VecAdd(a, b) == [i \in 1..3 |-> a[i] + b[i]]

VecSub(a, b) == [i \in 1..3 |-> a[i] - b[i]]

RECURSIVE ISqrtBetween(_, _, _)
\* The largest r in lo..hi with r*r <= x (lo*lo <= x), by bisection.  The
\* midpoint is bound by a quantifier, so that it is computed once a level.
ISqrtBetween(x, lo, hi) ==
    IF lo = hi THEN lo
    ELSE CHOOSE r \in { IF mid * mid <= x THEN ISqrtBetween(x, mid, hi)
                                          ELSE ISqrtBetween(x, lo, mid - 1) :
                        mid \in {(lo + hi + 1) \div 2} } : TRUE

ISqrt(x) == CHOOSE r \in { ISqrtBetween(y, 0, 46340) : y \in {x} } : TRUE

\* np.linalg.norm of a 3-vector, to about four significant digits: large
\* components are scaled down by k before squaring so that the sum of
\* squares stays in range.
Norm(v) ==
    LET m == Max2(Abs(v[1]), Max2(Abs(v[2]), Abs(v[3])))
    IN CHOOSE r \in { k * ISqrt((Abs(v[1]) \div k) * (Abs(v[1]) \div k)
                                + (Abs(v[2]) \div k) * (Abs(v[2]) \div k)
                                + (Abs(v[3]) \div k) * (Abs(v[3]) \div k)) :
                      k \in {(m \div 16384) + 1} } : TRUE

\* np.linalg.norm(v) > t, exactly (0 <= t <= 16384): a component beyond t
\* decides it, otherwise the squares are compared.
NormGt(v, t) ==
    \/ \E i \in 1..3 : Abs(v[i]) > t
    \/ v[1] * v[1] + v[2] * v[2] + v[3] * v[3] > t * t

(* ------------------------------- cells -------------------------------- *)

StateKeys == {"position", "velocity", "attitude", "angular_velocity"}

\* An alias of the array object self.state[k].
Ref(k) == [ref |-> k, val |-> Zero3]

\* A fresh array holding v.
Val(v) == [ref |-> "none", val |-> v]

\* The contents of cell c when the state arrays hold st.
Deref(st, c) == IF c.ref = "none" THEN c.val ELSE st[c.ref]

(* ------------------------- program constants -------------------------- *)

\* pi, in attitude units.
PiUnits == 3141593

\* `iteration % 10 == 0'
EvalPeriod == 10

\* `pos_error > 10.0' (km), in position units.
RDV_ABORT_THRESHOLD == 10000

\* `altitude > 0.1' (km), in position units.
TAG_ALTITUDE == 100

\* `self.time > 50' (s), in time units.
TAG_TIME == 5000

Scenarios == {"RDV", "TAG", "XYZ"}

\* The constructor's dt: the default 0.1 s, and 5 s.
DtSet == {10, 500}

\* Durations of a run: negative, none, one and a half steps, MaxTicks whole
\* steps.
Durations(d) == {-d, 0, d + d \div 2, MaxTicks * d}

\* One draw of the np.random.randn calls of a tick, in units of each
\* channel's standard deviation: all zero, or one sample of a few sigma.
NoiseSet ==
    { [imu_accel |-> Zero3, imu_gyro |-> Zero3, star_tracker |-> Zero3,
       lidar_range |-> 0, camera_position |-> Zero3],
      [imu_accel |-> <<-2, 0, 1>>, imu_gyro |-> <<1, -1, 0>>,
       star_tracker |-> <<-2, 1, 0>>, lidar_range |-> -2,
       camera_position |-> <<-3, 2, -1>>] }

\* The locals of run_test_scenario before the first tick binds them.
NoSensorData ==
    [imu_accel |-> Zero3, imu_gyro |-> Zero3, star_tracker |-> Zero3,
     lidar_range |-> 0, camera_position |-> Zero3]

NoState ==
    [position |-> Val(Zero3), velocity |-> Val(Zero3),
     attitude |-> Val(Zero3), angular_velocity |-> Val(Zero3)]

NoCommands == [thrust |-> Zero3, torque |-> Zero3]

(* ------------------------------ methods ------------------------------- *)

\* initialize_state: four new arrays.  self.time is not touched.
initialize_state ==
    [position |-> <<2500000, 200000, -50000>>,
     velocity |-> <<1000, -500, 200>>,
     attitude |-> Zero3,
     angular_velocity |-> Zero3]

\* generate_sensor_measurements, with the tick's noise draw n.
\* lidar_range is in units of 0.1 m.
generate_sensor_measurements(st, n) ==
    [imu_accel |-> n.imu_accel,
     imu_gyro |-> n.imu_gyro,
     star_tracker |-> VecAdd(st.attitude, n.star_tracker),
     lidar_range |-> Norm(st.position) * 10 + n.lidar_range,
     camera_position |-> VecAdd(st.position, n.camera_position)]

\* estimate_state: position and attitude are the sensor's fresh arrays;
\* velocity and angular_velocity are the state's own array objects.
estimate_state(sd) ==
    [position |-> Val(sd.camera_position),
     velocity |-> Ref("velocity"),
     attitude |-> Val(sd.star_tracker),
     angular_velocity |-> Ref("angular_velocity")]

\* compute_guidance with `elif scenario == 'TAG'' written as `else'.
compute_guidance_fallthrough(current_state, sc) ==
    LET target_position == IF sc = "RDV" THEN <<20000, 0, 0>> ELSE Zero3
        target_velocity == IF sc = "RDV" THEN Zero3 ELSE <<0, 0, -1>>
    IN [position |-> Val(target_position),
        velocity |-> Val(target_velocity),
        attitude |-> Val(Zero3),
        angular_velocity |-> Val(Zero3)]

\* compute_guidance: dispatch on the scenario; current_state is unused.
compute_guidance(current_state, sc) ==
    LET target_position == IF sc = "RDV" THEN <<20000, 0, 0>> ELSE Zero3
        target_velocity == IF sc = "TAG" THEN <<0, 0, -1>> ELSE Zero3
    IN [position |-> Val(target_position),
        velocity |-> Val(target_velocity),
        attitude |-> Val(Zero3),
        angular_velocity |-> Val(Zero3)]

\* Kp_pos = 0.01 on a position error, in thrust units.
Kp_pos(e) == [i \in 1..3 |-> RoundDiv(e[i], 10)]

\* Kd_pos = 0.1 on a velocity error, in thrust units.
Kd_pos(e) == [i \in 1..3 |-> RoundDiv(e[i], 10)]

\* Kp_att = 0.1 on an attitude error, in torque units.
Kp_att(e) == [i \in 1..3 |-> RoundDiv(e[i], 10)]

\* Kd_att = 0.05 on an angular velocity error, in torque units.
Kd_att(e) == [i \in 1..3 |-> RoundDiv(e[i], 20)]

\* compute_control, reading its arguments while the state arrays hold st.
compute_control(st, cur, des) ==
    LET pos_error == VecSub(Deref(st, des.position), Deref(st, cur.position))
        vel_error == VecSub(Deref(st, des.velocity), Deref(st, cur.velocity))
        att_error == VecSub(Deref(st, des.attitude), Deref(st, cur.attitude))
        ang_vel_error == VecSub(Deref(st, des.angular_velocity),
                                Deref(st, cur.angular_velocity))
    IN [thrust |-> VecAdd(Kp_pos(pos_error), Kd_pos(vel_error)),
        torque |-> VecAdd(Kp_att(att_error), Kd_att(ang_vel_error))]

\* x * self.dt for a rate x per second.
TimesDt(x, d) == [i \in 1..3 |-> MulDiv(x[i], d, 100)]

\* velocity * self.dt, in position units.
VelTimesDt(v, d) == [i \in 1..3 |-> MulDiv(v[i], d, 1000)]

\* apply_actuator_commands: both arrays are updated in place.
apply_actuator_commands(st, cmd, d) ==
    [st EXCEPT !.velocity = VecAdd(@, TimesDt(cmd.thrust, d)),
               !.angular_velocity = VecAdd(@, TimesDt(cmd.torque, d))]

\* (a + pi) mod 2 pi - pi: the angle of a in [-pi, pi).
Wrap_halfOpen(a) == ((a + PiUnits) % (2 * PiUnits)) - PiUnits

\* arctan2(sin(a), cos(a)): the angle of a in (-pi, pi].
Wrap(a) ==
    LET r == ((a + PiUnits) % (2 * PiUnits)) - PiUnits
    IN IF r = -PiUnits THEN PiUnits ELSE r

\* propagate_dynamics, the state part: position and attitude in place, then
\* attitude rebound to the wrapped array.
propagate_dynamics(st, d) ==
    LET moved == [st EXCEPT
                    !.position = VecAdd(@, VelTimesDt(st.velocity, d)),
                    !.attitude = VecAdd(@, TimesDt(st.angular_velocity, d))]
    IN [moved EXCEPT !.attitude = [i \in 1..3 |-> Wrap(moved.attitude[i])]]

\* propagate_dynamics, the clock: self.time += self.dt.
AdvanceTime(t, d) == t + d

\* log_data with `self.test_log = [log_entry]' for the append.
log_data_overwrite(log, st, t, est, des, cmd) ==
    << [time |-> t,
        position |-> Val(st.position),
        velocity |-> Val(st.velocity),
        position_error |->
            Norm(VecSub(Deref(st, des.position), Deref(st, est.position))),
        velocity_error |->
            Norm(VecSub(Deref(st, des.velocity), Deref(st, est.velocity))),
        thrust_magnitude |-> Norm(cmd.thrust)] >>

\* log_data without the two .copy() calls: the entry holds the state's arrays.
log_data_nocopy(log, st, t, est, des, cmd) ==
    Append(log,
           [time |-> t,
            position |-> Ref("position"),
            velocity |-> Ref("velocity"),
            position_error |->
                Norm(VecSub(Deref(st, des.position), Deref(st, est.position))),
            velocity_error |->
                Norm(VecSub(Deref(st, des.velocity), Deref(st, est.velocity))),
            thrust_magnitude |-> Norm(cmd.thrust)])

\* log_data: the entry is built while the state arrays hold st (after
\* propagate_dynamics), with copies of position and velocity, and appended.
log_data(log, st, t, est, des, cmd) ==
    Append(log,
           [time |-> t,
            position |-> Val(st.position),
            velocity |-> Val(st.velocity),
            position_error |->
                Norm(VecSub(Deref(st, des.position), Deref(st, est.position))),
            velocity_error |->
                Norm(VecSub(Deref(st, des.velocity), Deref(st, est.velocity))),
            thrust_magnitude |-> Norm(cmd.thrust)])

\* check_success_criteria with `pos_error >= 10.0'.
check_success_criteria_ge(st, t, sc) ==
    IF sc = "RDV"
    THEN LET d == VecSub(st.position, <<20000, 0, 0>>)
         IN IF NormGt(d, RDV_ABORT_THRESHOLD) THEN FALSE
            ELSE d[1] * d[1] + d[2] * d[2] + d[3] * d[3]
                   # RDV_ABORT_THRESHOLD * RDV_ABORT_THRESHOLD
    ELSE IF sc = "TAG"
    THEN ~ (NormGt(st.position, TAG_ALTITUDE) /\ t > TAG_TIME)
    ELSE TRUE

\* check_success_criteria.
check_success_criteria(st, t, sc) ==
    IF sc = "RDV"
    THEN ~ NormGt(VecSub(st.position, <<20000, 0, 0>>), RDV_ABORT_THRESHOLD)
    ELSE IF sc = "TAG"
    THEN ~ (NormGt(st.position, TAG_ALTITUDE) /\ t > TAG_TIME)
    ELSE TRUE

\* `while self.time <= duration'
LoopGuard_inclusive(t, dur) == t <= dur

\* `while self.time < duration'
LoopGuard(t, dur) == t < dur

\* `if (iteration + 1) % 10 == 0': every 10th tick, the first not included.
EvalDue_skipFirst(it) == (it + 1) % EvalPeriod = 0

\* `if iteration % 10 == 0'
EvalDue(it) == it % EvalPeriod = 0

\* Steps 5 and 6 exchanged: propagate, then apply the commands.
PropagateThenActuate(st, cmd, d) ==
    apply_actuator_commands(propagate_dynamics(st, d), cmd, d)

\* Steps 5 and 6 of a tick: apply the commands, then propagate.
ActuateThenPropagate(st, cmd, d) ==
    propagate_dynamics(apply_actuator_commands(st, cmd, d), d)

(* ------------------------------ actions ------------------------------- *)

\* HILSimulator(dt): __init__.
Init ==
    /\ dt \in DtSet
    /\ time = 0
    /\ state = initialize_state
    /\ test_log = <<>>
    /\ pc = "constructed"
    /\ scenario = "RDV"
    /\ duration = 0
    /\ iteration = 0
    /\ sensor_data = NoSensorData
    /\ estimated_state = NoState
    /\ desired_state = NoState
    /\ commands = NoCommands
    /\ reused = FALSE
    /\ evalLog = <<>>

\* run_test_scenario(sc, dur) up to the loop: the object is re-initialised.
RunTestScenario(sc, dur) ==
    /\ pc \in {"constructed", "complete"}
    /\ pc' = "running"
    /\ reused' = (pc = "complete")
    /\ scenario' = sc
    /\ duration' = dur
    /\ state' = initialize_state
    /\ test_log' = <<>>
    /\ iteration' = 0
    /\ sensor_data' = NoSensorData
    /\ estimated_state' = NoState
    /\ desired_state' = NoState
    /\ commands' = NoCommands
    /\ evalLog' = <<>>
    /\ UNCHANGED <<dt, time>>

\* One iteration of the main test loop, with the noise draw n.  Each stage's
\* result is bound once, in the order of the code.
Tick(n) ==
    /\ pc = "running"
    /\ LoopGuard(time, duration)
    /\ \E sd \in {generate_sensor_measurements(state, n)} :
       \E est \in {estimate_state(sd)} :
       \E des \in {compute_guidance(est, scenario)} :
       \E cmd \in {compute_control(state, est, des)} :
       \E st2 \in {ActuateThenPropagate(state, cmd, dt)} :
       \E t2 \in {AdvanceTime(time, dt)} :
          /\ sensor_data' = sd
          /\ estimated_state' = est
          /\ desired_state' = des
          /\ commands' = cmd
          /\ state' = st2
          /\ time' = t2
          /\ test_log' = log_data(test_log, st2, t2, est, des, cmd)
          /\ evalLog' = IF EvalDue(iteration)
                        THEN Append(evalLog,
                                    [iteration |-> iteration,
                                     result |-> check_success_criteria(st2, t2, scenario)])
                        ELSE evalLog
    /\ iteration' = iteration + 1
    /\ UNCHANGED <<dt, pc, scenario, duration, reused>>

\* The loop ends; print_final_statistics reads the log and returns.
Finish ==
    /\ pc = "running"
    /\ ~ LoopGuard(time, duration)
    /\ pc' = "complete"
    /\ UNCHANGED <<dt, time, state, test_log, scenario, duration, iteration,
                   sensor_data, estimated_state, desired_state, commands,
                   reused, evalLog>>

Call == \E sc \in Scenarios : \E dur \in Durations(dt) : RunTestScenario(sc, dur)

Step == \E n \in NoiseSet : Tick(n)

Next == Call \/ Step \/ Finish

Spec == Init /\ [][Next]_vars

\* The loop is a single thread that runs until its guard fails.
LiveSpec == Spec /\ WF_vars(Step) /\ WF_vars(Finish)

(* ------------- check_success_criteria on drawn inputs ----------------- *)

\* True positions around the two thresholds (on and off axis), and far ones.
EvalPositions ==
    { <<x, y, z>> : x \in {0, 60, 100, 101, 20000, 26000, 30000, 30001},
                    y \in {0, 80, 8000},
                    z \in {0, 1} }

\* Simulation times around TAG_TIME.
EvalTimes == {0, TAG_TIME, TAG_TIME + 1}

EvalInit ==
    /\ dt = 10
    /\ time \in EvalTimes
    /\ \E p \in EvalPositions : state = [initialize_state EXCEPT !.position = p]
    /\ test_log = <<>>
    /\ pc = "evaluate"
    /\ scenario \in Scenarios
    /\ duration = 0
    /\ iteration = 0
    /\ sensor_data = NoSensorData
    /\ estimated_state = NoState
    /\ desired_state = NoState
    /\ commands = NoCommands
    /\ reused = FALSE
    /\ evalLog = <<>>

\* One call of check_success_criteria(scenario); its return value is kept.
EvalCall ==
    /\ pc = "evaluate"
    /\ pc' = "evaluated"
    /\ evalLog' = <<[iteration |-> iteration,
                     result |-> check_success_criteria(state, time, scenario)]>>
    /\ UNCHANGED <<dt, time, state, test_log, scenario, duration, iteration,
                   sensor_data, estimated_state, desired_state, commands, reused>>

EvalNext == EvalCall

EvalSpec == EvalInit /\ [][EvalNext]_vars

(* ------- apply_actuator_commands / propagate_dynamics, called --------- *)
(* ------- by a client with torques of its own choice            --------- *)

\* Torques from pi rad/s^2 down to 0.5 rad/s^2, both signs.
TorqueSet ==
    { <<3141593, -3141593, 6283186>>, <<1000000, -2000000, 500000>> }

AttInit ==
    /\ dt \in {100, 500}
    /\ time = 0
    /\ state = initialize_state
    /\ test_log = <<>>
    /\ pc = "harness"
    /\ scenario = "RDV"
    /\ duration = 0
    /\ iteration = 0
    /\ sensor_data = NoSensorData
    /\ estimated_state = NoState
    /\ desired_state = NoState
    /\ commands = NoCommands
    /\ reused = FALSE
    /\ evalLog = <<>>

\* apply_actuator_commands({thrust: 0, torque: tq}).
AttApply(tq) ==
    /\ pc = "harness"
    /\ iteration < MaxAttSteps
    /\ commands' = [thrust |-> Zero3, torque |-> tq]
    /\ state' = apply_actuator_commands(state, commands', dt)
    /\ iteration' = iteration + 1
    /\ UNCHANGED <<dt, time, test_log, pc, scenario, duration, sensor_data,
                   estimated_state, desired_state, reused, evalLog>>

\* propagate_dynamics().
AttPropagate ==
    /\ pc = "harness"
    /\ iteration < MaxAttSteps
    /\ state' = propagate_dynamics(state, dt)
    /\ time' = AdvanceTime(time, dt)
    /\ iteration' = iteration + 1
    /\ UNCHANGED <<dt, test_log, pc, scenario, duration, sensor_data,
                   estimated_state, desired_state, commands, reused, evalLog>>

AttTorque == \E tq \in TorqueSet : AttApply(tq)

AttNext == AttTorque \/ AttPropagate

AttSpec == AttInit /\ [][AttNext]_vars

(* ============================ properties ============================== *)

\* The state in which a run stands before its first tick.
Initialized == pc = "running" /\ iteration = 0

\* A step of the loop body.
TickStep == iteration' = iteration + 1

\* The steps needed to bring a clock from 0 to at least dur in steps of d.
TicksNeeded(dur, d) == IF dur <= 0 THEN 0 ELSE (dur + d - 1) \div d

\* The newest record of a log.
Last(log) == log[Len(log)]

\* A log record as a reader sees it while the state arrays hold st.
LogView(st, e) ==
    [time |-> e.time,
     position |-> Deref(st, e.position),
     velocity |-> Deref(st, e.velocity),
     position_error |-> e.position_error,
     velocity_error |-> e.velocity_error,
     thrust_magnitude |-> e.thrust_magnitude]

\* C1: every run starts INITIALIZED: before its first tick the spacecraft
\* state is the fixed initial state, the log is empty and the time is 0;
\* and so a completed run with duration > 0 has performed ticks.
C1_EveryRunStartsInitialized ==
    /\ Initialized =>
          /\ state = initialize_state
          /\ test_log = <<>>
          /\ time = 0
    /\ (pc = "complete" /\ duration > 0) => iteration > 0

\* C2: when a run on a fresh simulator is COMPLETE, the log holds one record
\* per tick (the i-th stamped i*dt), the iteration counter is that number,
\* and it is within one of the steps needed to reach duration from 0.
C2_FreshRunLogsEveryTick ==
    (pc = "complete" /\ ~ reused) =>
        /\ Len(test_log) = iteration
        /\ \A i \in 1..Len(test_log) : test_log[i].time = i * dt
        /\ Abs(iteration - TicksNeeded(duration, dt)) <= 1

\* A fresh run of MaxTicks ticks has completed.
C2_Witness ==
    /\ pc = "complete"
    /\ ~ reused
    /\ iteration = MaxTicks
    /\ Len(test_log) = MaxTicks

\* C3: a tick runs only while time < duration and advances time by exactly
\* dt; the loop leaves RUNNING only with time >= duration, and then at the
\* first such tick boundary (time - dt < duration if a tick ran); and every
\* run that is RUNNING becomes COMPLETE.
C3_LoopTerminates ==
    /\ [][ /\ TickStep => (time < duration /\ time' = time + dt)
           /\ (pc = "running" /\ pc' = "complete") =>
                 /\ time >= duration
                 /\ iteration > 0 => time - dt < duration ]_vars
    /\ (pc = "running") ~> (pc = "complete")

\* A run has completed past its duration, and one exactly on it.
C3_Witness ==
    /\ pc = "complete"
    /\ iteration > 1
    /\ time > duration
    /\ time - dt < duration

\* C4: a tick calls the evaluator exactly when its iteration counter is a
\* multiple of 10; whatever the call returns, the tick ends RUNNING with
\* the counter one up, the time dt on, one record more, and the state as
\* actuation and integration left it (which is what the record holds); and
\* while time < duration a next tick can be taken.
C4_EvaluatorObservational ==
    /\ [][ TickStep =>
             /\ IF iteration % 10 = 0
                THEN /\ Len(evalLog') = Len(evalLog) + 1
                     /\ Last(evalLog').iteration = iteration
                     /\ \A i \in 1..Len(evalLog) : evalLog'[i] = evalLog[i]
                ELSE evalLog' = evalLog
             /\ pc' = "running"
             /\ time' = time + dt
             /\ Len(test_log') = Len(test_log) + 1
             /\ state' = propagate_dynamics(
                            apply_actuator_commands(state, commands', dt), dt)
             /\ Deref(state', Last(test_log').position) = state'.position
             /\ Deref(state', Last(test_log').velocity) = state'.velocity ]_vars
    /\ [](pc = "running" /\ time < duration => ENABLED Step)

\* The evaluator has returned false in the first tick, and the run went on
\* to a second call ten ticks later.
C4_Witness ==
    /\ Len(evalLog) = 2
    /\ ~ evalLog[1].result
    /\ evalLog[1].iteration = 0
    /\ evalLog[2].iteration = 10
    /\ iteration = 11

\* C5: check_success_criteria returns false exactly for RDV with the true
\* position strictly more than 10 km from (20,0,0) km, and for TAG with the
\* norm of the true position strictly more than 0.1 km and the time strictly
\* more than 50 s.
C5_CheckReturnsFalseExactly ==
    pc = "evaluated" =>
        LET p == state.position
            d == VecSub(p, <<20000, 0, 0>>)
            rdvFar == d[1] * d[1] + d[2] * d[2] + d[3] * d[3] > 10000 * 10000
            tagHigh == p[1] * p[1] + p[2] * p[2] + p[3] * p[3] > 100 * 100
        IN evalLog[1].result =
             ~ \/ scenario = "RDV" /\ rdvFar
               \/ scenario = "TAG" /\ tagHigh /\ time > 5000

\* RDV at exactly 10 km (6 km and 8 km off the target's axes) returned true.
C5_Witness ==
    /\ pc = "evaluated"
    /\ scenario = "RDV"
    /\ state.position = <<26000, 8000, 0>>
    /\ evalLog[1].result

\* C6: a run with a scenario other than RDV and TAG has an all-zero desired
\* state at every tick, every evaluator call of it returns true, and it
\* becomes COMPLETE.
C6_UnknownScenarioDegrades ==
    /\ [][ (scenario \notin {"RDV", "TAG"} /\ TickStep) =>
             /\ \A k \in StateKeys : Deref(state', desired_state'[k]) = Zero3
             /\ \A i \in 1..Len(evalLog') : evalLog'[i].result ]_vars
    /\ (pc = "running" /\ scenario \notin {"RDV", "TAG"}) ~> (pc = "complete")

\* A run of scenario XYZ has completed after MaxTicks ticks and two checks.
C6_Witness ==
    /\ scenario = "XYZ"
    /\ pc = "complete"
    /\ iteration = MaxTicks
    /\ Len(evalLog) = 2

C8_LoggedVelocityError ==
    [][ TickStep =>
          /\ Last(test_log').velocity_error =
                Norm(VecSub(Deref(state', desired_state'.velocity),
                            state.velocity))
          /\ Deref(state', estimated_state'.velocity) = state.velocity ]_vars

\* C9: in every tick the sensors read the state from before the tick; the
\* command is the control law on the sensed position and attitude and the
\* velocity and angular velocity from before the tick's actuation; the
\* position after the tick is the position before it plus dt times the
\* velocity already incremented by the tick's thrust; the record and the
\* evaluator (when due) see the state and time after the integration.
C9_ActuationBeforeIntegration ==
    [][ TickStep =>
          /\ \E n \in NoiseSet :
                sensor_data' = generate_sensor_measurements(state, n)
          /\ Last(test_log').time = time'
          /\ Deref(state', Last(test_log').position) = state'.position
          /\ (iteration % 10 = 0) =>
                Last(evalLog').result =
                    check_success_criteria(state', time', scenario)
          /\ state'.velocity = VecAdd(state.velocity, TimesDt(commands'.thrust, dt))
          /\ state'.position =
                VecAdd(state.position,
                       VelTimesDt(VecAdd(state.velocity,
                                         TimesDt(commands'.thrust, dt)), dt))
          /\ commands'.thrust =
                VecAdd(Kp_pos(VecSub(Deref(state', desired_state'.position),
                                     sensor_data'.camera_position)),
                       Kd_pos(VecSub(Deref(state', desired_state'.velocity),
                                     state.velocity)))
          /\ commands'.torque =
                VecAdd(Kp_att(VecSub(Zero3, sensor_data'.star_tracker)),
                       Kd_att(VecSub(Zero3, state.angular_velocity))) ]_vars

\* Ticks have run, and the last one's thrust has changed the velocity.
C9_Witness ==
    /\ pc = "running"
    /\ iteration >= 2
    /\ commands.thrust # Zero3
    /\ TimesDt(commands.thrust, dt) # Zero3

\* C10: during a run every step keeps the records the log has, as a reader
\* sees them, in their places; a tick appends exactly one; and each record's
\* time is the time of the one before it plus dt.
C10_LogAppendOnly ==
    [][ pc = "running" =>
          /\ Len(test_log') = Len(test_log) + (IF TickStep THEN 1 ELSE 0)
          /\ \A i \in 1..Len(test_log) :
                LogView(state', test_log'[i]) = LogView(state, test_log[i])
          /\ \A i \in 1..(Len(test_log') - 1) :
                test_log'[i + 1].time = test_log'[i].time + dt ]_vars

\* The log holds several records, the first still showing the position and
\* velocity of its own tick, not the current ones.
C10_Witness ==
    /\ pc = "running"
    /\ Len(test_log) >= 3
    /\ Deref(state, test_log[1].position) # state.position
    /\ Deref(state, test_log[1].velocity) # state.velocity
    /\ Deref(state, test_log[1].position) # Deref(state, test_log[2].position)

====
